---- MODULE Spec2Model ----
(***************************************************************************)
(* Model of the StudyTracker program (src/tracker.py and its older copy    *)
(* src/unnamed/part_000): the timer state machine, the log store and the   *)
(* operations of the dashboard that change the store.                      *)
(*                                                                         *)
(* Time is counted in ticks, TicksPerSec ticks to the second, from the     *)
(* midnight that starts day 0.  A stored timestamp is a text value: the    *)
(* ISO string of a datetime (its date and its time of day), a string that  *)
(* is no ISO timestamp, or NULL.                                           *)
(***************************************************************************)
EXTENDS Integers, Sequences, FiniteSets, TLC

VARIABLES
    variant,        \* which source file runs: "tracker" or "copy"
    now,            \* the wall clock, in ticks
    TIMER_RUNNING,  \* global TIMER_RUNNING
    START_TIME,     \* global START_TIME (a tick count) or None
    logs,           \* the rows of table logs (committed)
    nextId,         \* the next AUTOINCREMENT id
    shown,          \* what the last handler showed: a dialog (with the count
                    \* an import reports) or an uncaught exception
    toggles,        \* history: completed toggle_timer() calls
    appended,       \* history: rows appended by toggle_timer()
    pc,             \* where each thread other than Tk's stands in toggle_timer()
    t_end,          \* the local variable end of toggle_timer(), per thread
    ui,             \* the handler the Tk event loop is inside, with its
                    \* connection's uncommitted view of table logs
    observed,       \* history: what the last statistics computation read
    quit,           \* history: the timer state and the store _on_quit() found
                    \* when Quit was chosen
    stats,          \* the dict the last calc_stats() call returned
    obs,            \* the overlay tick: where update_obs_output() stands, what
                    \* it has read, what it published last, whether its next
                    \* run is scheduled
    win,            \* the dashboard window: is_fullscreen, _prev_geometry, the
                    \* window manager's fullscreen attribute and geometry
    exported        \* the file export_json() wrote last (a JSON array), with
                    \* the rows it was written from

vars == <<variant, now, TIMER_RUNNING, START_TIME, logs, nextId, shown,
          toggles, appended, pc, t_end, ui, observed, quit, stats, obs,
          win, exported>>

\* The state of the threads; the handlers run one at a time leave it alone.
conc == <<pc, t_end, ui, observed, quit>>

\* What the statistics, the overlay and the window handlers keep; the timer
\* and the store handlers leave it alone.
view == <<stats, obs, win>>

-----------------------------------------------------------------------------
(* Bounds *)

TicksPerSec == 2        \* clock resolution of the model
MaxClock    == 2        \* ticks the clock may advance past StartNow
MaxId       == 2        \* rows ever inserted in one behaviour
MaxMins     == 1        \* largest minute count typed into a spin box
MaxBatch    == 2        \* longest imported JSON array
MaxDay      == 2        \* dates 1..MaxDay can be picked in the calendar

TicksPerDay == 24 * 60 * 60 * TicksPerSec
Days        == 1 .. MaxDay
None        == -1

\* The program is started shortly before the midnight that ends day 1.
StartNow == 2 * TicksPerDay - 1

-----------------------------------------------------------------------------
(* Timestamps and their text form *)

\* datetime.isoformat() writes the date, the separator "T" and the time.
isoformat(t) ==
    [k |-> "iso", sep |-> "T", d |-> t \div TicksPerDay, tod |-> t % TicksPerDay]

\* The same instant written with a space as separator ("2024-12-29 00:01:00"),
\* which datetime.fromisoformat() parses as well.
isoformat_space(t) == [isoformat(t) EXCEPT !.sep = " "]

NullText     == [k |-> "null", sep |-> "T", d |-> 0, tod |-> 0]

ParseOK(s)      == s.k = "iso"
fromisoformat(s) == s.d * TicksPerDay + s.tod
DateOf(t)       == t \div TicksPerDay
Midnight(day)   == day * TicksPerDay
Seconds(n)      == n * TicksPerSec

\* String order of two timestamp texts: the dates compare first, then the
\* separators (" " sorts before "T"), then the times of day.
TextLeq(a, b) ==
    \/ a.d < b.d
    \/ a.d = b.d /\ a.sep # b.sep /\ a.sep = " "
    \/ a.d = b.d /\ a.sep = b.sep /\ a.tod <= b.tod

\* A session length rounded to the nearest second instead of truncated.
total_seconds_rounded(start, end) ==
    (end - start + TicksPerSec \div 2) \div TicksPerSec

\* int((end - start).total_seconds())
total_seconds_int(start, end) == (end - start) \div TicksPerSec

-----------------------------------------------------------------------------
(* The log store *)

Row(id, st, en, dur) ==
    [id |-> id, start_time |-> st, end_time |-> en, duration_seconds |-> dur]

\* An INSERT OR REPLACE keyed on start_time: the new row takes the place of
\* the rows that start at the same instant.
Insert_or_replace(store, id, st, en, dur) ==
    {r \in store : r.start_time # st} \cup {Row(id, st, en, dur)}

\* INSERT INTO logs(start_time,end_time,duration_seconds) VALUES(?,?,?)
Insert(store, id, st, en, dur) == store \cup {Row(id, st, en, dur)}

\* add_log(start, end, seconds)
add_log(store, id, start, end, seconds) ==
    Insert(store, id, isoformat(start), isoformat(end), seconds)

DeleteId(store, id) == {r \in store : r.id # id}

UpdateId(store, id, en, dur) ==
    {IF r.id = id THEN Row(r.id, r.start_time, en, dur) ELSE r : r \in store}

CanInsert == nextId <= MaxId

\* Dialogs and failures a handler ends with
Show(m, n)   == [msg |-> m, count |-> n]
Quiet        == Show("none", 0)
WarnPositive == Show("Enter a positive integer.", 0)
InfoNone     == Show("No sessions on date.", 0)
ErrInteger   == Show("Please enter a valid integer.", 0)
ImportError  == Show("Import Error", 0)
Uncaught     == Show("exception in callback", 0)
ImportDone(n) == Show("Successfully imported", n)

\* The threads that call toggle_timer(): the keyboard listener.
Threads == {"hk"}

\* The thread of the tray icon (icon.run), whose Quit item calls _on_quit(),
\* and all the threads that can be inside toggle_timer().
TrayThread == "tray"
Callers == Threads \cup {TrayThread}

\* Where a thread stands when toggle_timer() returns: the keyboard listener
\* waits for the next key, _on_quit() goes on to stop the application.
Return(t) == IF t = TrayThread THEN "quit" ELSE "idle"

\* Quit has not been chosen.
\* No file has been exported.
NoFile == [written |-> FALSE, file |-> <<>>, rows |-> {}]

NoQuit == [chosen |-> FALSE, running |-> FALSE, start |-> None, store |-> {}]

UiIdle == [pc |-> "idle", ord |-> <<>>, recs |-> <<>>, i |-> 0, rem |-> 0,
           view |-> {}, locked |-> FALSE, id |-> 0, count |-> 0]

-----------------------------------------------------------------------------
(* The calendar: day 0 of the model is Saturday 2024-12-28, so that the      *)
(* first days of the model run over the end of a month, of a year and of an  *)
(* ISO week.  The operators compute what datetime.date computes.             *)

is_leap(y) == y % 4 = 0 /\ (y % 100 # 0 \/ y % 400 = 0)

days_before_year(y) ==
    (y - 1) * 365 + (y - 1) \div 4 - (y - 1) \div 100 + (y - 1) \div 400

days_in_month(y, m) ==
    IF m = 2 THEN (IF is_leap(y) THEN 29 ELSE 28)
    ELSE IF m \in {4, 6, 9, 11} THEN 30 ELSE 31

RECURSIVE days_before_month(_, _)
days_before_month(y, m) ==
    IF m = 1 THEN 0 ELSE days_before_month(y, m - 1) + days_in_month(y, m - 1)

ymd2ord(y, m, d) == days_before_year(y) + days_before_month(y, m) + d

EpochOrdinal == ymd2ord(2024, 12, 28)

\* date.toordinal() of model day d
toordinal(d) == EpochOrdinal + d

\* date.year, date.month, date.day
year_of(d) ==
    CHOOSE y \in (2023 .. 2026) :
        days_before_year(y) < toordinal(d) /\ toordinal(d) <= days_before_year(y + 1)

month_of(d) ==
    LET n == toordinal(d) - days_before_year(year_of(d))
    IN  CHOOSE m \in 1 .. 12 :
            /\ days_before_month(year_of(d), m) < n
            /\ n <= days_before_month(year_of(d), m) + days_in_month(year_of(d), m)

day_of_month(d) ==
    toordinal(d) - days_before_year(year_of(d))
                 - days_before_month(year_of(d), month_of(d))

\* date.weekday(): Monday is 0
weekday(d) == (toordinal(d) + 6) % 7

DayNames == <<"Monday", "Tuesday", "Wednesday", "Thursday", "Friday",
              "Saturday", "Sunday">>

\* date.strftime('%A')
day_name(d) == DayNames[weekday(d) + 1]

\* The ordinal of the Monday that starts ISO week 1 of year y
isoweek1monday(y) ==
    LET firstday     == ymd2ord(y, 1, 1)
        firstweekday == (firstday + 6) % 7
        week1monday  == firstday - firstweekday
    IN  IF firstweekday > 3 THEN week1monday + 7 ELSE week1monday

\* date.isocalendar(): the ISO year and the ISO week number
isocalendar(d) ==
    LET y    == year_of(d)
        n    == toordinal(d)
        week == (n - isoweek1monday(y)) \div 7
    IN  IF week < 0
          THEN [year |-> y - 1, week |-> (n - isoweek1monday(y - 1)) \div 7 + 1]
          ELSE IF week >= 52 /\ n >= isoweek1monday(y + 1)
                 THEN [year |-> y + 1, week |-> 1]
                 ELSE [year |-> y, week |-> week + 1]

-----------------------------------------------------------------------------
(* Statistics: calc_stats() and hms().  A float that is the quotient of two  *)
(* integers is kept as that quotient; a duration text "HH:MM:SS" is the      *)
(* triple of its three numbers.                                              *)

Ratio(n, d) == [num |-> n, den |-> d]

\* round(x): the nearest integer, a tie goes to the even neighbour
round_half_even(x) ==
    LET q == x.num \div x.den
        r == x.num % x.den
    IN  IF 2 * r < x.den THEN q
        ELSE IF 2 * r > x.den THEN q + 1
        ELSE IF q % 2 = 0 THEN q ELSE q + 1

\* hms(sec)
hms(x) ==
    LET sec == round_half_even(x)
        h   == sec \div 3600
        m   == sec % 3600
    IN  <<h, m \div 60, m % 60>>

default_hms == <<0, 0, 0>>

\* The seconds between a row's two timestamps.
row_seconds_elapsed(r) ==
    (fromisoformat(r.end_time) - fromisoformat(r.start_time)) \div TicksPerSec

\* r['duration_seconds']
row_seconds(r) == r.duration_seconds

\* sum(r['duration_seconds'] for r in rows), in the order of rows
RECURSIVE sum_rows(_, _)
sum_rows(rows, i) ==
    IF i > Len(rows) THEN 0 ELSE row_seconds(rows[i]) + sum_rows(rows, i + 1)

\* datetime.fromisoformat(r['start_time']).date()
start_date(r) == DateOf(fromisoformat(r.start_time))

\* sorted(dates)
RECURSIVE sorted(_)
sorted(S) ==
    IF S = {} THEN <<>>
    ELSE LET m == CHOOSE x \in S : \A y \in S : x <= y
         IN  <<m>> \o sorted(S \ {m})

\* The walk back from the last date: for i in range(len(dates) - 1, 0, -1)
RECURSIVE current_walk(_, _, _)
current_walk(dates, i, current) ==
    IF i < 2 THEN current
    ELSE IF dates[i] - dates[i - 1] = 1
           THEN current_walk(dates, i - 1, current + 1)
           ELSE current

\* A streak that counts only when the last studied date is today.
current_streak_today_only(dates, today) ==
    IF dates = <<>> THEN 0
    ELSE IF dates[Len(dates)] = today
           THEN current_walk(dates, Len(dates), 1)
           ELSE 0

\* current, as the two if statements leave it
current_streak(dates, today) ==
    IF dates = <<>> THEN 0
    ELSE LET last == dates[Len(dates)]
             c1   == IF last = today \/ last = today - 1
                       THEN current_walk(dates, Len(dates), 1) ELSE 0
         IN  IF last # today /\ last # today - 1 THEN 0 ELSE c1

\* A run counter that is never reset at a gap.
RECURSIVE longest_walk_no_reset(_, _, _, _)
longest_walk_no_reset(dates, i, tmp, longest) ==
    IF i >= Len(dates) THEN longest
    ELSE LET t == IF dates[i + 1] - dates[i] = 1 THEN tmp + 1 ELSE tmp
             l == IF t > longest THEN t ELSE longest
         IN  longest_walk_no_reset(dates, i + 1, t, l)

\* for i in range(len(dates) - 1): tmp grows on a gap of one day, else is 1
RECURSIVE longest_walk(_, _, _, _)
longest_walk(dates, i, tmp, longest) ==
    IF i >= Len(dates) THEN longest
    ELSE LET t == IF dates[i + 1] - dates[i] = 1 THEN tmp + 1 ELSE 1
             l == IF t > longest THEN t ELSE longest
         IN  longest_walk(dates, i + 1, t, l)

\* longest as it is set before the loop.
longest_streak_before_loop(dates) ==
    IF dates = <<>> THEN 0 ELSE 1

\* longest = 1 if dates else 0, then the loop
longest_streak(dates) ==
    IF dates = <<>> THEN 0 ELSE longest_walk(dates, 1, 1, 1)

\* (d.year, d.isocalendar()[1])
week_bucket(d) == <<year_of(d), isocalendar(d).week>>

\* (d.year, d.month)
month_bucket(d) == <<year_of(d), month_of(d)>>

\* max(day_totals, key=day_totals.get): the first key, in the order the rows
\* put them into the dict, that has the largest total
busiest_day(rows) ==
    LET idx       == 1 .. Len(rows)
        name(i)   == day_name(start_date(rows[i]))
        total(n)  == sum_rows(SelectSeq(rows, LAMBDA r : day_name(start_date(r)) = n), 1)
        first(n)  == CHOOSE i \in idx : name(i) = n /\ \A j \in idx : name(j) = n => i <= j
        names     == {name(i) : i \in idx}
    IN  IF rows = <<>> THEN "N/A"
        ELSE CHOOSE n \in names :
               /\ \A o \in names : total(o) <= total(n)
               /\ \A o \in names : total(o) = total(n) => first(n) <= first(o)

\* The percentage without the rounding to two decimals, cut to hundredths.
consistency_truncated(dates, today) ==
    IF dates = <<>> THEN 0
    ELSE LET days_since_start == today - dates[1] + 1
         IN  IF days_since_start > 0
               THEN (Len(dates) * 10000) \div days_since_start
               ELSE 0

\* round(consistency_percent, 2), in hundredths of a percent
consistency_percent(dates, today) ==
    IF dates = <<>> THEN 0
    ELSE LET days_since_start == today - dates[1] + 1
         IN  IF days_since_start > 0
               THEN round_half_even(Ratio(Len(dates) * 10000, days_since_start))
               ELSE 0

\* The keys of the dict each file's calc_stats() returns.
StatKeysCopy ==
    {"total_hours", "today_hours", "weekly_hours", "monthly_hours",
     "daily_avg", "weekly_avg", "monthly_avg", "current_streak",
     "longest_streak", "total_sec", "today_sec", "week_sec", "month_sec"}

stat_keys(v) ==
    IF v = "tracker"
      THEN StatKeysCopy \cup {"total_study_days", "avg_session_duration",
                              "busiest_day", "consistency_percent"}
      ELSE StatKeysCopy

\* A dict for no rows in which the longest streak starts at 1.
empty_stats_streak_one(v) ==
    [raised |-> FALSE, keys |-> stat_keys(v),
     total_hours |-> default_hms, today_hours |-> default_hms,
     weekly_hours |-> default_hms, monthly_hours |-> default_hms,
     daily_avg |-> default_hms, weekly_avg |-> default_hms,
     monthly_avg |-> default_hms, avg_session_duration |-> default_hms,
     current_streak |-> 0, longest_streak |-> 1,
     total_sec |-> 0, today_sec |-> 0, week_sec |-> 0, month_sec |-> 0,
     total_study_days |-> 0, busiest_day |-> "N/A", consistency_percent |-> 0]

\* The dict returned for no rows; a key that is not in keys is not in the
\* dict, whatever the record holds for it.
empty_stats(v) ==
    [raised |-> FALSE, keys |-> stat_keys(v),
     total_hours |-> default_hms, today_hours |-> default_hms,
     weekly_hours |-> default_hms, monthly_hours |-> default_hms,
     daily_avg |-> default_hms, weekly_avg |-> default_hms,
     monthly_avg |-> default_hms, avg_session_duration |-> default_hms,
     current_streak |-> 0, longest_streak |-> 0,
     total_sec |-> 0, today_sec |-> 0, week_sec |-> 0, month_sec |-> 0,
     total_study_days |-> 0, busiest_day |-> "N/A", consistency_percent |-> 0]

\* No dict: datetime.fromisoformat() raised ValueError.
stats_raised ==
    [raised |-> TRUE, keys |-> {},
     total_hours |-> default_hms, today_hours |-> default_hms,
     weekly_hours |-> default_hms, monthly_hours |-> default_hms,
     daily_avg |-> default_hms, weekly_avg |-> default_hms,
     monthly_avg |-> default_hms, avg_session_duration |-> default_hms,
     current_streak |-> 0, longest_streak |-> 0,
     total_sec |-> 0, today_sec |-> 0, week_sec |-> 0, month_sec |-> 0,
     total_study_days |-> 0, busiest_day |-> "", consistency_percent |-> 0]

\* Before the first call of calc_stats().
NoStats == [stats_raised EXCEPT !.raised = FALSE]

\* calc_stats() of file v, on the rows get_all_logs() returned, on day today
calc_stats(v, rows, today) ==
    IF rows = <<>> THEN empty_stats(v)
    ELSE IF \E i \in 1 .. Len(rows) : ~ParseOK(rows[i].start_time)
      THEN stats_raised
    ELSE
      LET total_sec   == sum_rows(rows, 1)
          week_start  == today - weekday(today)
          month_start == today - (day_of_month(today) - 1)
          today_sec   == sum_rows(SelectSeq(rows, LAMBDA r : start_date(r) = today), 1)
          week_sec    == sum_rows(SelectSeq(rows, LAMBDA r : start_date(r) >= week_start), 1)
          month_sec   == sum_rows(SelectSeq(rows, LAMBDA r : start_date(r) >= month_start), 1)
          dateset     == {start_date(rows[i]) : i \in 1 .. Len(rows)}
          dates       == sorted(dateset)
          weeks       == {week_bucket(d) : d \in dateset}
          months      == {month_bucket(d) : d \in dateset}
      IN  [raised |-> FALSE, keys |-> stat_keys(v),
           total_hours |-> hms(Ratio(total_sec, 1)),
           today_hours |-> hms(Ratio(today_sec, 1)),
           weekly_hours |-> hms(Ratio(week_sec, 1)),
           monthly_hours |-> hms(Ratio(month_sec, 1)),
           daily_avg |-> hms(Ratio(total_sec, Cardinality(dateset))),
           weekly_avg |-> hms(Ratio(total_sec, Cardinality(weeks))),
           monthly_avg |-> hms(Ratio(total_sec, Cardinality(months))),
           avg_session_duration |-> hms(Ratio(total_sec, Len(rows))),
           current_streak |-> current_streak(dates, today),
           longest_streak |-> longest_streak(dates),
           total_sec |-> total_sec, today_sec |-> today_sec,
           week_sec |-> week_sec, month_sec |-> month_sec,
           total_study_days |-> Len(dates),
           busiest_day |-> busiest_day(rows),
           consistency_percent |-> consistency_percent(dates, today)]

\* The overlay tick at rest, nothing published yet; its first run is scheduled
\* by setup_tray().
ObsIdle == [pc |-> "idle", scheduled |-> TRUE, stats |-> NoStats, at |-> 0,
            elapsed |-> Ratio(0, 1),
            payload |-> [session |-> default_hms, today |-> default_hms,
                         streak |-> 0, running |-> FALSE],
            delivered |-> FALSE]

\* SettingsWindow.__init__: is_fullscreen = False, _prev_geometry = None
Geometry(size, x, y) == [size |-> size, x |-> x, y |-> y]
NoGeometry == Geometry("none", 0, 0)

\* The heatmap canvas: the rectangles created so far, in the order of the
\* loop, and whether the drawing was left by an exception.
NoCanvas == [cells |-> <<>>, raised |-> FALSE]

\* SUM(duration_seconds) over the rows that start on date d
RECURSIVE total_seconds_on(_, _)
total_seconds_on(store, d) ==
    LET S == {r \in store : ParseOK(r.start_time)
                            /\ DateOf(fromisoformat(r.start_time)) = d}
    IN  IF S = {} THEN 0
        ELSE LET r == CHOOSE x \in S : TRUE
             IN  r.duration_seconds + total_seconds_on(store \ {r}, d)

\* get_daily_summary(year): the dates of the year on which a row starts (SQLite
\* date() and strftime('%Y') give NULL for a text that is no timestamp, and
\* the WHERE clause then drops the row), each with SUM(duration_seconds).
get_daily_summary(store, year) ==
    LET dates == {DateOf(fromisoformat(r.start_time)) :
                    r \in {x \in store :
                             /\ ParseOK(x.start_time)
                             /\ year_of(DateOf(fromisoformat(x.start_time))) = year}}
    IN  [d \in dates |-> total_seconds_on(store, d)]

\* max_val = max(data.values()) if data else 1
max_val(data) ==
    IF DOMAIN data = {} THEN 1
    ELSE LET m == CHOOSE d \in DOMAIN data : \A e \in DOMAIN data : data[e] <= data[d]
         IN  data[m]

\* get_color(val): the index into HEATMAP_COLORS, or 5 where val / max_val
\* raises ZeroDivisionError.  p < q/4 is val * 4 < q * max_val for a positive
\* max_val and val * 4 > q * max_val for a negative one.
ZeroDivision == 5

get_color(val, mx) ==
    IF val = 0 THEN 0
    ELSE IF mx = 0 THEN ZeroDivision
    ELSE LET below(q) == IF mx > 0 THEN val * 4 < q * mx ELSE val * 4 > q * mx
         IN  IF below(1) THEN 1
             ELSE IF below(2) THEN 2
             ELSE IF below(3) THEN 3
             ELSE 4

\* date(year, 1, 1) + timedelta(days=day_of_year - 1), as a day of the model
date_of_year(year, day_of_year) == ymd2ord(year, 1, 1) - EpochOrdinal + day_of_year - 1

\* The last day_of_year of the loop: range(1, days_in_year + 1) in tracker.py,
\* range(1, 366 if calendar.isleap(year) else 365) in the older file.
last_day_of_year(v, year) ==
    IF v = "tracker" THEN (IF is_leap(year) THEN 366 ELSE 365)
                     ELSE (IF is_leap(year) THEN 366 ELSE 365) - 1

\* The rectangle of one day: its tier, column and row.
heat_cell(data, new_year, first_day_weekday, mx, day_of_year) ==
    LET current_date == new_year + day_of_year - 1
        seconds   == IF current_date \in DOMAIN data THEN data[current_date] ELSE 0
        day_index == first_day_weekday + day_of_year - 1
    IN  [day |-> day_of_year, seconds |-> seconds, tier |-> get_color(seconds, mx),
         col |-> day_index \div 7, row |-> day_index % 7]

\* _update_heatmap(): the canvas is cleared and the days are drawn in order,
\* up to the day whose colour raises.
update_heatmap(v, store, year) ==
    LET data   == get_daily_summary(store, year)
        mx     == max_val(data)
        new_year == date_of_year(year, 1)
        first_day_weekday == weekday(new_year)
        last   == last_day_of_year(v, year)
        cells  == [i \in 1 .. last |->
                     heat_cell(data, new_year, first_day_weekday, mx, i)]
        failed == {i \in 1 .. last : cells[i].tier = ZeroDivision}
    IN  IF failed = {} THEN [cells |-> cells, raised |-> FALSE]
        ELSE LET f == CHOOSE i \in failed : \A j \in failed : i <= j
             IN  [cells |-> SubSeq(cells, 1, f - 1), raised |-> TRUE]

WinInit == [is_fullscreen |-> FALSE, prev_geometry |-> NoGeometry,
            fullscreen |-> FALSE, geometry |-> Geometry("window", 0, 0),
            supported |-> TRUE,
            heatmap_year |-> year_of(DateOf(StartNow)), canvas |-> NoCanvas]

-----------------------------------------------------------------------------
Init ==
    /\ variant \in {"tracker", "copy"}
    /\ now = StartNow
    /\ TIMER_RUNNING = FALSE
    /\ START_TIME = None
    /\ logs = {}
    /\ nextId = 1
    /\ shown = Quiet
    /\ toggles = 0
    /\ appended = 0
    /\ pc = [t \in Callers |-> "idle"]
    /\ t_end = [t \in Callers |-> None]
    /\ ui = UiIdle
    /\ observed = [whole |-> TRUE, mid |-> FALSE]
    /\ quit = NoQuit
    /\ exported = NoFile
    /\ stats = NoStats
    /\ obs = ObsIdle
    /\ win = WinInit

\* datetime.now() moves on between two handlers.
Tick ==
    /\ now < StartNow + MaxClock
    /\ now' = now + 1
    /\ UNCHANGED <<view, variant, exported, TIMER_RUNNING, START_TIME, logs, nextId, shown,
                   toggles, appended, conc>>

\* toggle_timer(), run as one handler
toggle_timer ==
    /\ TIMER_RUNNING' = ~TIMER_RUNNING
    /\ IF TIMER_RUNNING'
         THEN /\ START_TIME' = now
              /\ UNCHANGED <<logs, nextId>>
         ELSE IF START_TIME # None
                THEN /\ CanInsert
                     /\ logs' = add_log(logs, nextId, START_TIME, now,
                                        total_seconds_int(START_TIME, now))
                     /\ nextId' = nextId + 1
                     /\ START_TIME' = None
                ELSE UNCHANGED <<logs, nextId, START_TIME>>
    /\ toggles' = toggles + 1
    /\ appended' = appended + Cardinality(logs') - Cardinality(logs)
    /\ shown' = Quiet
    /\ UNCHANGED <<view, variant, exported, now, conc>>

-----------------------------------------------------------------------------
(* The dashboard's handlers *)

\* What update_all_views() does with the committed rows: calc_stats() parses
\* every start_time, update_recent_logs_page() every start_time and end_time.
calc_stats_raises(store) == \E r \in store : ~ParseOK(r.start_time)

views_raise(store) ==
    \E r \in store : ~ParseOK(r.start_time) \/ ~ParseOK(r.end_time)

\* int(self.spin.get()): the text of a spin box is an integer or it is not.
SpinInputs == [k : {"int"}, v : -1 .. MaxMins] \cup {[k |-> "text", v |-> 0]}

\* A check that lets a zero minute count through.
spin_rejected_negative_only(input) == input.k # "int" \/ input.v < 0

\* int(self.spin.get()) raises ValueError, or mins <= 0
spin_rejected(input) == input.k # "int" \/ input.v <= 0

\* The rows the deduct branch selects; the comprehension parses every row.
logs_on(store, target_date) ==
    {l \in store : DateOf(fromisoformat(l.start_time)) = target_date}

\* sorted(logs, key=start_time, reverse=True) over get_all_logs(): newest
\* start first; rows with equal start_time come in the order SQLite gave.
SortedDesc(S) ==
    {ord \in [1 .. Cardinality(S) -> S] :
        /\ \A i, j \in 1 .. Cardinality(S) : i # j => ord[i] # ord[j]
        /\ \A i, j \in 1 .. Cardinality(S) :
              i < j => TextLeq(ord[j].start_time, ord[i].start_time)}

\* One pass of the loop body on row l: DELETE the row, or shrink it and stop.
deduct_iter(l, rem, store) ==
    IF rem >= l.duration_seconds
      THEN [store |-> DeleteId(store, l.id), rem |-> rem - l.duration_seconds]
      ELSE LET new_dur == l.duration_seconds - rem
               new_end == isoformat(fromisoformat(l.start_time) + Seconds(new_dur))
           IN  [store |-> UpdateId(store, l.id, new_end, new_dur), rem |-> 0]

RECURSIVE DeductLoop(_, _, _, _)
DeductLoop(ord, i, rem, store) ==
    IF i > Len(ord) \/ rem <= 0 THEN store
    ELSE LET r == deduct_iter(ord[i], rem, store)
         IN  DeductLoop(ord, i + 1, r.rem, r.store)

\* SettingsWindow._manual_op(mode) with the spin box text and the picked date
manual_op(mode, target_date, input) ==
    /\ UNCHANGED <<view, variant, exported, now, TIMER_RUNNING, START_TIME, toggles, appended,
                   conc>>
    /\ IF spin_rejected(input)
         THEN /\ shown' = WarnPositive
              /\ UNCHANGED <<logs, nextId>>
         ELSE LET sec == input.v * 60 IN
              IF mode = "add"
                THEN /\ CanInsert
                     /\ logs' = add_log(logs, nextId, Midnight(target_date),
                                        Midnight(target_date) + Seconds(sec), sec)
                     /\ nextId' = nextId + 1
                     /\ shown' = IF views_raise(logs') THEN Uncaught ELSE Quiet
                ELSE /\ UNCHANGED nextId
                     /\ IF calc_stats_raises(logs)
                          THEN shown' = Uncaught /\ UNCHANGED logs
                          ELSE IF logs_on(logs, target_date) = {}
                                 THEN shown' = InfoNone /\ UNCHANGED logs
                                 ELSE /\ \E ord \in SortedDesc(logs_on(logs, target_date)) :
                                           logs' = DeductLoop(ord, 1, sec, logs)
                                      /\ shown' = IF views_raise(logs')
                                                    THEN Uncaught ELSE Quiet

\* SettingsWindow._delete_log() on the selected row, confirmed
delete_log(log_id) ==
    /\ \E r \in logs : r.id = log_id
    /\ logs' = DeleteId(logs, log_id)
    /\ shown' = IF views_raise(logs') THEN Uncaught ELSE Quiet
    /\ UNCHANGED <<view, variant, exported, now, TIMER_RUNNING, START_TIME, nextId,
                   toggles, appended, conc>>

\* new_end as each file computes it (tracker.py:988, part_000:659)
edit_new_end(v, log, secs_to_change, new_duration) ==
    IF v = "tracker"
      THEN isoformat(fromisoformat(log.start_time) + Seconds(new_duration))
      ELSE isoformat(fromisoformat(log.start_time) + Seconds(secs_to_change))

\* The row apply_change() leaves for log, or no row
apply_change_rows(v, log, secs_to_change) ==
    LET new_duration == log.duration_seconds + secs_to_change IN
    IF new_duration <= 0 THEN {}
    ELSE {Row(log.id, log.start_time,
              edit_new_end(v, log, secs_to_change, new_duration), new_duration)}

\* SettingsWindow._edit_log.apply_change() for the selected row
apply_change(log_id, input) ==
    /\ \E r \in logs : r.id = log_id
    /\ UNCHANGED <<view, variant, exported, now, TIMER_RUNNING, START_TIME, nextId,
                   toggles, appended, conc>>
    /\ input.k = "int" =>
          \* repeated edits may not grow a row without bound in the model
          \A r \in logs : r.id = log_id =>
             r.duration_seconds + input.v * 60 <= 60 * (MaxMins + 1)
    /\ IF input.k # "int"
         THEN shown' = ErrInteger /\ UNCHANGED logs
         ELSE LET log == CHOOSE r \in logs : r.id = log_id
                  secs_to_change == input.v * 60
              IN  IF log.duration_seconds + secs_to_change > 0
                     /\ ~ParseOK(log.start_time)
                    THEN shown' = ErrInteger /\ UNCHANGED logs
                    ELSE /\ logs' = DeleteId(logs, log_id)
                                    \cup apply_change_rows(variant, log, secs_to_change)
                         /\ shown' = IF views_raise(logs')
                                       THEN ErrInteger ELSE Quiet

EditInputs == [k : {"int"}, v : -MaxMins .. MaxMins] \cup {[k |-> "text", v |-> 0]}

-----------------------------------------------------------------------------
(* Import *)

ImportKeys == {"start_time", "end_time", "duration_seconds"}

\* One element of the imported JSON array: the keys it has and their values.
\* A duration is a JSON number (k = "int") or some other JSON value.
Elem(keys, st, en, dk, dv) ==
    [keys |-> keys, start_time |-> st, end_time |-> en,
     duration_seconds |-> [k |-> dk, v |-> dv]]

ImportStart == Midnight(1) + Seconds(60)

ImportElems ==
    { Elem(ImportKeys, isoformat(ImportStart), isoformat(ImportStart + Seconds(60)), "int", 60),
      Elem({}, NullText, NullText, "int", 0),
      Elem({"start_time", "end_time"}, isoformat(ImportStart), isoformat(ImportStart), "int", 0),
      Elem(ImportKeys, isoformat(ImportStart), isoformat(ImportStart), "int", -60),
      \* a start_time that is no ISO-8601 text
      Elem(ImportKeys, [k |-> "str", sep |-> "T", d |-> 0, tod |-> 0],
           isoformat(ImportStart), "int", 60),
      Elem(ImportKeys, NullText, isoformat(ImportStart), "int", 60),
      Elem(ImportKeys, isoformat(ImportStart), isoformat(ImportStart), "str", 0) }

Batches == UNION {[1 .. n -> ImportElems] : n \in 0 .. MaxBatch}

\* all(k in r for k in ("start_time", "end_time", "duration_seconds"))
has_all_keys(r) == ImportKeys \subseteq r.keys

\* int(r["duration_seconds"]) raises ValueError/TypeError for a value that is
\* no number; that is no sqlite3.Error.
int_raises(r) == r.duration_seconds.k # "int"

\* The INSERT fails with sqlite3.IntegrityError on a NULL in a NOT NULL column.
insert_raises(r) == r.start_time.k = "null" \/ r.end_time.k = "null"

\* The loop of import_json over recs[i..], inside one transaction.
RECURSIVE ImportLoop(_, _, _, _, _)
ImportLoop(recs, i, store, id, count) ==
    IF i > Len(recs)
      THEN [store |-> store, nextId |-> id, count |-> count, raised |-> FALSE]
    ELSE LET r == recs[i] IN
         IF ~has_all_keys(r) THEN ImportLoop(recs, i + 1, store, id, count)
         ELSE IF int_raises(r)
           THEN [store |-> store, nextId |-> id, count |-> count, raised |-> TRUE]
         ELSE IF insert_raises(r) THEN ImportLoop(recs, i + 1, store, id, count)
         ELSE ImportLoop(recs, i + 1,
                         Insert(store, id, r.start_time, r.end_time,
                                r.duration_seconds.v),
                         id + 1, count + 1)

\* SettingsWindow.import_json() on a chosen file holding the array recs
import_json(recs) ==
    LET res == ImportLoop(recs, 1, logs, nextId, 0) IN
    /\ res.nextId <= MaxId + 1
    /\ UNCHANGED <<view, variant, exported, now, TIMER_RUNNING, START_TIME, toggles, appended,
                   conc>>
    /\ IF res.raised
         THEN \* the exception leaves the with block: rollback
              /\ shown' = ImportError
              /\ UNCHANGED <<logs, nextId>>
         ELSE /\ logs' = res.store
              /\ nextId' = res.nextId
              /\ shown' = IF views_raise(logs')
                            THEN ImportError ELSE ImportDone(res.count)

Next ==
    \/ Tick
    \/ toggle_timer
    \/ \E mode \in {"add", "deduct"}, d \in Days, input \in SpinInputs :
          manual_op(mode, d, input)
    \/ \E id \in 1 .. MaxId : delete_log(id)
    \/ \E id \in 1 .. MaxId, input \in EditInputs : apply_change(id, input)
    \/ \E recs \in Batches : import_json(recs)

Spec == Init /\ [][Next]_vars

\* The timer with the manual entries and deletions of the dashboard.
NextTimer ==
    \/ Tick
    \/ toggle_timer
    \/ \E mode \in {"add", "deduct"}, d \in Days, input \in SpinInputs :
          manual_op(mode, d, input)
    \/ \E id \in 1 .. MaxId : delete_log(id)

SpecTimer == Init /\ [][NextTimer]_vars

\* toggle_timer() stopping a session when add_log() raises (the INSERT fails:
\* the database is locked or cannot be written): the flag is already flipped,
\* the exception leaves the function before START_TIME = None.
toggle_timer_write_error ==
    /\ TIMER_RUNNING
    /\ START_TIME # None
    /\ toggles <= 2 * MaxId
    /\ TIMER_RUNNING' = FALSE
    /\ toggles' = toggles + 1
    /\ shown' = Uncaught
    /\ UNCHANGED <<view, variant, exported, now, START_TIME, logs, nextId, appended, conc>>

\* The timer on a store whose writes can fail.
NextWriteError ==
    \/ Tick
    \/ toggle_timer
    \/ toggle_timer_write_error

SpecWriteError == Init /\ [][NextWriteError]_vars

\* The dashboard's store operations alone (no session is timed).
NextStore ==
    \/ \E mode \in {"add", "deduct"}, d \in Days, input \in SpinInputs :
          manual_op(mode, d, input)
    \/ \E id \in 1 .. MaxId : delete_log(id)
    \/ \E id \in 1 .. MaxId, input \in EditInputs : apply_change(id, input)
    \/ \E recs \in Batches : import_json(recs)

SpecStore == Init /\ [][NextStore]_vars

-----------------------------------------------------------------------------
(* Threads: the keyboard listener calls toggle_timer() itself, the tray      *)
(* thread opens the dashboard, the Tk event loop runs the handlers.  A       *)
(* handler's "with sqlite3.connect(DB_FILE) as con" block is one             *)
(* transaction: its statements change the connection's view, the commit at   *)
(* the end of the block changes table logs.                                  *)

\* A read that sees another connection's uncommitted statements.
get_all_logs_uncommitted == IF ui.locked THEN ui.view ELSE logs

\* get_all_logs(): a SELECT on a connection of its own reads committed rows.
get_all_logs == logs

\* keyboard.add_hotkey("alt+shift+1", toggle_timer): the listener thread
\* enters toggle_timer().
hotkey_press(t) ==
    /\ pc[t] = "idle"
    /\ pc' = [pc EXCEPT ![t] = "flip"]
    /\ UNCHANGED <<view, variant, exported, now, TIMER_RUNNING, START_TIME, logs, nextId,
                   shown, toggles, appended, t_end, ui, observed, quit>>

\* TIMER_RUNNING = not TIMER_RUNNING
toggle_flip(t) ==
    /\ pc[t] = "flip"
    /\ TIMER_RUNNING' = ~TIMER_RUNNING
    /\ pc' = [pc EXCEPT ![t] = "branch"]
    /\ UNCHANGED <<view, variant, exported, now, START_TIME, logs, nextId, shown, toggles,
                   appended, t_end, ui, observed, quit>>

\* if TIMER_RUNNING: START_TIME = datetime.now()
toggle_start(t) ==
    /\ pc[t] = "branch"
    /\ TIMER_RUNNING
    /\ START_TIME' = now
    /\ pc' = [pc EXCEPT ![t] = Return(t)]
    /\ toggles' = toggles + 1
    /\ UNCHANGED <<view, variant, exported, now, TIMER_RUNNING, logs, nextId, shown,
                   appended, t_end, ui, observed, quit>>

\* else: if START_TIME: end = datetime.now()
toggle_stop_end(t) ==
    /\ pc[t] = "branch"
    /\ ~TIMER_RUNNING
    /\ IF START_TIME # None
         THEN /\ t_end' = [t_end EXCEPT ![t] = now]
              /\ pc' = [pc EXCEPT ![t] = "add_log"]
              /\ UNCHANGED toggles
         ELSE /\ pc' = [pc EXCEPT ![t] = Return(t)]
              /\ toggles' = toggles + 1
              /\ UNCHANGED t_end
    /\ UNCHANGED <<view, variant, exported, now, TIMER_RUNNING, START_TIME, logs, nextId,
                   shown, appended, ui, observed, quit>>

\* add_log(START_TIME, end, int((end - START_TIME).total_seconds())): one
\* INSERT, committed; it waits while another connection holds the write lock.
toggle_stop_add_log(t) ==
    /\ pc[t] = "add_log"
    /\ ~ui.locked
    /\ CanInsert
    /\ logs' = add_log(logs, nextId, START_TIME, t_end[t],
                       total_seconds_int(START_TIME, t_end[t]))
    /\ nextId' = nextId + 1
    /\ appended' = appended + 1
    /\ pc' = [pc EXCEPT ![t] = "clear"]
    /\ UNCHANGED <<view, variant, exported, now, TIMER_RUNNING, START_TIME, shown, toggles,
                   t_end, ui, observed, quit>>

\* START_TIME = None
toggle_stop_clear(t) ==
    /\ pc[t] = "clear"
    /\ START_TIME' = None
    /\ t_end' = [t_end EXCEPT ![t] = None]
    /\ pc' = [pc EXCEPT ![t] = Return(t)]
    /\ toggles' = toggles + 1
    /\ UNCHANGED <<view, variant, exported, now, TIMER_RUNNING, logs, nextId, shown,
                   appended, ui, observed, quit>>

\* The rows the handler's own connection sees.
ui_view == IF ui.locked THEN ui.view ELSE logs

\* _manual_op("deduct") reaches its loop: the rows of the date were read.
deduct_begin(target_date, input) ==
    /\ ui.pc = "idle"
    /\ ~spin_rejected(input)
    /\ ~calc_stats_raises(logs)
    /\ logs_on(get_all_logs, target_date) # {}
    /\ \E ord \in SortedDesc(logs_on(get_all_logs, target_date)) :
          ui' = [UiIdle EXCEPT !.pc = "deduct", !.ord = ord, !.i = 1,
                               !.rem = input.v * 60]
    /\ UNCHANGED <<view, variant, exported, now, TIMER_RUNNING, START_TIME, logs, nextId,
                   shown, toggles, appended, pc, t_end, observed, quit>>

\* One pass of the loop: a DELETE or an UPDATE inside the transaction.
deduct_step ==
    /\ ui.pc = "deduct"
    /\ IF ui.i > Len(ui.ord) \/ ui.rem <= 0
         THEN ui' = [ui EXCEPT !.pc = "commit"]
         ELSE LET r == deduct_iter(ui.ord[ui.i], ui.rem, ui_view)
              IN  ui' = [ui EXCEPT !.view = r.store, !.locked = TRUE,
                                   !.rem = r.rem, !.i = ui.i + 1]
    /\ UNCHANGED <<view, variant, exported, now, TIMER_RUNNING, START_TIME, logs, nextId,
                   shown, toggles, appended, pc, t_end, observed, quit>>

\* import_json() has read the file and opened its connection.
import_begin(recs) ==
    /\ ui.pc = "idle"
    /\ ImportLoop(recs, 1, logs, nextId, 0).nextId <= MaxId + 1
    /\ ui' = [UiIdle EXCEPT !.pc = "import", !.recs = recs, !.i = 1,
                            !.id = nextId]
    /\ UNCHANGED <<view, variant, exported, now, TIMER_RUNNING, START_TIME, logs, nextId,
                   shown, toggles, appended, pc, t_end, observed, quit>>

\* One pass of the loop over recs: skip, INSERT, swallow, or raise.
import_step ==
    /\ ui.pc = "import"
    /\ UNCHANGED <<view, variant, exported, now, TIMER_RUNNING, START_TIME, logs, nextId,
                   toggles, appended, pc, t_end, observed, quit>>
    /\ IF ui.i > Len(ui.recs)
         THEN ui' = [ui EXCEPT !.pc = "commit"] /\ UNCHANGED shown
         ELSE LET r == ui.recs[ui.i] IN
              IF ~has_all_keys(r) \/ (~int_raises(r) /\ insert_raises(r))
                THEN ui' = [ui EXCEPT !.i = ui.i + 1] /\ UNCHANGED shown
              ELSE IF int_raises(r)
                THEN ui' = UiIdle /\ shown' = ImportError
              ELSE /\ ui' = [ui EXCEPT
                               !.view = Insert(ui_view,
                                               IF ui.locked THEN ui.id ELSE nextId,
                                               r.start_time, r.end_time,
                                               r.duration_seconds.v),
                               !.id = (IF ui.locked THEN ui.id ELSE nextId) + 1,
                               !.locked = TRUE,
                               !.count = ui.count + 1,
                               !.i = ui.i + 1]
                   /\ UNCHANGED shown

\* The with block ends: COMMIT; then update_all_views() and the dialog.
ui_commit ==
    /\ ui.pc = "commit"
    /\ logs' = ui_view
    /\ nextId' = IF ui.locked /\ ui.recs # <<>> THEN ui.id ELSE nextId
    /\ shown' = IF ui.recs # <<>>
                  THEN (IF views_raise(logs') THEN ImportError
                                              ELSE ImportDone(ui.count))
                  ELSE (IF views_raise(logs') THEN Uncaught ELSE Quiet)
    /\ ui' = UiIdle
    /\ UNCHANGED <<view, variant, exported, now, TIMER_RUNNING, START_TIME, toggles, appended,
                   pc, t_end, observed, quit>>

\* The store once the handler in progress has run to its commit.
ui_outcome ==
    IF ui.pc = "deduct" THEN DeductLoop(ui.ord, ui.i, ui.rem, ui_view)
    ELSE IF ui.pc = "import"
      THEN LET res == ImportLoop(ui.recs, ui.i, ui_view,
                                 IF ui.locked THEN ui.id ELSE nextId, 0)
           IN  IF res.raised THEN logs ELSE res.store
    ELSE ui_view

\* Some but not all statements of the handler's transaction are executed.
ui_partly_written == ui.locked /\ ui_view # logs /\ ui_view # ui_outcome

\* calc_stats() reads the rows: what it sees, set against the store before
\* and after the handler in progress.
calc_stats_reads ==
    observed' = [whole |-> get_all_logs \in {logs, ui_outcome},
                 mid   |-> ui_partly_written]

\* _show_settings() from the tray menu: update_all_views() on the tray thread
show_settings ==
    /\ calc_stats_reads
    /\ UNCHANGED <<view, variant, exported, now, TIMER_RUNNING, START_TIME, logs, nextId,
                   shown, toggles, appended, pc, t_end, ui, quit>>

\* _update_tooltip() / update_obs_output(): a tick of the Tk event loop,
\* which runs between two handlers
update_tooltip ==
    /\ ui.pc = "idle"
    /\ calc_stats_reads
    /\ UNCHANGED <<view, variant, exported, now, TIMER_RUNNING, START_TIME, logs, nextId,
                   shown, toggles, appended, pc, t_end, ui, quit>>

\* A handler of the Tk event loop that is one step: it starts only when the
\* loop is idle.
tk_handler ==
    /\ ui.pc = "idle"
    /\ \/ \E d \in Days, input \in SpinInputs : manual_op("add", d, input)
       \/ \E id \in 1 .. MaxId : delete_log(id)

\* The files imported while the threads are watched: elements that are
\* inserted as they are, skipped, or that make the import raise.
ConcBatches ==
    {recs \in Batches :
        \A i \in 1 .. Len(recs) :
           /\ ParseOK(recs[i].start_time) /\ ParseOK(recs[i].end_time)
           /\ recs[i].keys \in {{}, ImportKeys}
           /\ recs[i].duration_seconds.v >= 0}

InitConc == Init /\ variant = "tracker"

NextConc ==
    \/ Tick
    \/ \E t \in Threads :
          \/ hotkey_press(t)
          \/ toggle_flip(t)
          \/ toggle_start(t)
          \/ toggle_stop_end(t)
          \/ toggle_stop_add_log(t)
          \/ toggle_stop_clear(t)
    \/ tk_handler
    \/ \E d \in Days, input \in SpinInputs : deduct_begin(d, input)
    \/ deduct_step
    \/ \E recs \in ConcBatches : import_begin(recs)
    \/ import_step
    \/ ui_commit
    \/ show_settings
    \/ update_tooltip

SpecConc == InitConc /\ [][NextConc]_vars

-----------------------------------------------------------------------------
\* Quit from the tray menu.  _on_quit() runs on the tray thread, one statement
\* after the other, while the keyboard listener may be inside toggle_timer().
\* ROOT.quit() ends the main loop and with it the process: the listener and
\* the tray thread are daemon threads and stop wherever they stand.

\* if TIMER_RUNNING: toggle_timer()
on_quit_test ==
    /\ pc[TrayThread] = "idle"
    /\ pc' = [pc EXCEPT ![TrayThread] = IF TIMER_RUNNING THEN "flip" ELSE "quit"]
    /\ quit' = [chosen |-> TRUE, running |-> TIMER_RUNNING, start |-> START_TIME,
                store |-> logs]
    /\ UNCHANGED <<view, variant, exported, now, TIMER_RUNNING, START_TIME, logs, nextId,
                   shown, toggles, appended, t_end, ui, observed>>

\* icon.stop(); ROOT.quit()
on_quit_stop ==
    /\ pc[TrayThread] = "quit"
    /\ pc' = [pc EXCEPT ![TrayThread] = "exited"]
    /\ UNCHANGED <<view, variant, exported, now, TIMER_RUNNING, START_TIME, logs, nextId,
                   shown, toggles, appended, t_end, ui, observed, quit>>

Exited == pc[TrayThread] = "exited"

\* Nothing runs once the process has ended.
NextQuit ==
    \/ ~Exited /\ Tick
    \/ \E t \in Threads : ~Exited /\ hotkey_press(t)
    \/ \E t \in Callers :
          \/ ~Exited /\ toggle_flip(t)
          \/ ~Exited /\ toggle_start(t)
          \/ ~Exited /\ toggle_stop_end(t)
          \/ ~Exited /\ toggle_stop_add_log(t)
          \/ ~Exited /\ toggle_stop_clear(t)
    \/ on_quit_test
    \/ on_quit_stop

SpecQuit == InitConc /\ [][NextQuit]_vars

-----------------------------------------------------------------------------
(* The statistics of a store: calc_stats() as the dashboard's Stats page     *)
(* calls it, on stores with rows on the days 0 .. MaxStatDay.                *)

MaxStatDay == 5

StatDays == 0 .. MaxStatDay

\* The rows of one day: none; one session of a minute; or two sessions that
\* start at the same time, the second with an end_time that does not agree
\* with its duration_seconds.
day_rows(d, n) ==
    IF n = 0 THEN {}
    ELSE IF n = 1
      THEN {Row(2 * d + 1, isoformat(Midnight(d) + Seconds(60)),
                isoformat(Midnight(d) + Seconds(120)), 60)}
      ELSE {Row(2 * d + 1, isoformat(Midnight(d)),
                isoformat(Midnight(d) + Seconds(30)), 30),
            Row(2 * d + 2, isoformat(Midnight(d)), isoformat(Midnight(d)), 60)}

StatStores ==
    \* two sessions are stored on the first two days only
    {UNION {day_rows(d, f[d]) : d \in StatDays} :
       f \in {g \in [StatDays -> 0 .. 2] : \A d \in StatDays : g[d] = 2 => d <= 1}}

\* SELECT * FROM logs ORDER BY start_time DESC: every order of the rows in
\* which the start_time texts descend.
RECURSIVE read_orders(_)
read_orders(S) ==
    IF S = {} THEN {<<>>}
    ELSE UNION {{<<m>> \o t : t \in read_orders(S \ {m})} :
                  m \in {x \in S : \A y \in S : TextLeq(y.start_time, x.start_time)}}

InitStats ==
    /\ variant \in {"tracker", "copy"}
    /\ now \in {Midnight(d) + Seconds(1) : d \in 0 .. MaxStatDay + 1}
    /\ TIMER_RUNNING = FALSE
    /\ START_TIME = None
    /\ logs \in StatStores
    /\ nextId = 2 * MaxStatDay + 3
    /\ shown = Quiet
    /\ toggles = 0
    /\ appended = 0
    /\ pc = [t \in Callers |-> "idle"]
    /\ t_end = [t \in Callers |-> None]
    /\ ui = UiIdle
    /\ observed = [whole |-> TRUE, mid |-> FALSE]
    /\ quit = NoQuit
    /\ exported = NoFile
    /\ stats = NoStats
    /\ obs = ObsIdle
    /\ win = WinInit

\* SettingsWindow.update_stats_page(): s = calc_stats(), the labels, and
\* self._update_heatmap() at its end
update_stats_page ==
    /\ \E rows \in read_orders(get_all_logs) :
          stats' = calc_stats(variant, rows, DateOf(now))
    /\ win' = IF stats'.raised THEN win
              ELSE [win EXCEPT !.canvas = update_heatmap(variant, logs, win.heatmap_year)]
    /\ UNCHANGED <<variant, exported, now, TIMER_RUNNING, START_TIME, logs, nextId,
                   shown, toggles, appended, conc, obs>>

NextStats == update_stats_page

SpecStats == InitStats /\ [][NextStats]_vars

-----------------------------------------------------------------------------
(* The overlay tick: update_obs_output() runs on the Tk event loop, one      *)
(* statement after the other, while the keyboard listener may be inside      *)
(* toggle_timer().  An exception that leaves the function leaves it before   *)
(* ROOT.after(1000, update_obs_output).                                      *)

\* stats = calc_stats()
update_obs_output_stats ==
    /\ obs.pc = "idle" /\ obs.scheduled /\ ui.pc = "idle"
    /\ \E rows \in read_orders(get_all_logs) :
          LET s == calc_stats(variant, rows, DateOf(now)) IN
          IF s.raised
            THEN /\ obs' = [obs EXCEPT !.scheduled = FALSE]
                 /\ shown' = Uncaught
            ELSE /\ obs' = [obs EXCEPT !.pc = "running", !.scheduled = FALSE,
                                       !.stats = s]
                 /\ UNCHANGED shown
    /\ UNCHANGED <<variant, exported, now, TIMER_RUNNING, START_TIME, logs, nextId,
                   toggles, appended, conc, stats, win>>

\* ... if TIMER_RUNNING and START_TIME else 0
update_obs_output_running ==
    /\ obs.pc = "running"
    /\ obs' = IF TIMER_RUNNING /\ START_TIME # None
                THEN [obs EXCEPT !.pc = "elapsed"]
                ELSE [obs EXCEPT !.pc = "write", !.elapsed = Ratio(0, 1), !.at = now]
    /\ UNCHANGED <<variant, exported, now, TIMER_RUNNING, START_TIME, logs, nextId,
                   shown, toggles, appended, conc, stats, win>>

\* (datetime.now() - START_TIME).total_seconds(); TypeError when START_TIME
\* has become None
update_obs_output_elapsed ==
    /\ obs.pc = "elapsed"
    /\ IF START_TIME = None
         THEN obs' = [obs EXCEPT !.pc = "idle"] /\ shown' = Uncaught
         ELSE /\ obs' = [obs EXCEPT !.pc = "write", !.at = now,
                                    !.elapsed = Ratio(now - START_TIME, TicksPerSec)]
              /\ UNCHANGED shown
    /\ UNCHANGED <<variant, exported, now, TIMER_RUNNING, START_TIME, logs, nextId,
                   toggles, appended, conc, stats, win>>

\* today_total_sec = stats.get('today_sec', 0) + current_session_sec
today_total(s, elapsed) ==
    Ratio(s.today_sec * elapsed.den + elapsed.num, elapsed.den)

\* The strings of html_content and its timer-active class
html_content ==
    [session |-> hms(obs.elapsed),
     today   |-> hms(today_total(obs.stats, obs.elapsed)),
     streak  |-> obs.stats.current_streak,
     running |-> TIMER_RUNNING]

\* The file is written, or the write fails and is reported; then
\* ROOT.after(1000, update_obs_output)
update_obs_output_write ==
    /\ obs.pc = "write"
    /\ \E ok \in BOOLEAN :
          obs' = [obs EXCEPT !.pc = "idle", !.scheduled = TRUE,
                             !.payload = html_content, !.delivered = ok]
    /\ UNCHANGED <<variant, exported, now, TIMER_RUNNING, START_TIME, logs, nextId,
                   shown, toggles, appended, conc, stats, win>>

\* The files imported while the overlay is watched: one element, well formed
\* or with a start_time that is no timestamp.
OverlayBatches ==
    {recs \in Batches :
        /\ Len(recs) = 1
        /\ has_all_keys(recs[1]) /\ ~int_raises(recs[1]) /\ ~insert_raises(recs[1])
        /\ recs[1].duration_seconds.v >= 0
        /\ recs[1].start_time.sep = "T"}

\* A handler of the Tk event loop runs between two runs of the tick.
overlay_tk_handler ==
    /\ obs.pc = "idle"
    /\ \E recs \in OverlayBatches : import_json(recs)

NextOverlay ==
    \/ Tick
    \/ \E t \in Threads :
          \/ hotkey_press(t)
          \/ toggle_flip(t)
          \/ toggle_start(t)
          \/ toggle_stop_end(t)
          \/ toggle_stop_add_log(t)
          \/ toggle_stop_clear(t)
    \/ overlay_tk_handler
    \/ update_obs_output_stats
    \/ update_obs_output_running
    \/ update_obs_output_elapsed
    \/ update_obs_output_write

SpecOverlay == Init /\ [][NextOverlay]_vars

-----------------------------------------------------------------------------
\* The dashboard window of src/tracker.py: F11, Escape and dragging.  The
\* older file has no fullscreen code, so the window is that of tracker.py.
\* win.fullscreen is the '-fullscreen' attribute of the toplevel,
\* win.geometry what self.geometry() returns, win.supported whether
\* attributes('-fullscreen', ...) succeeds on the platform.

MaxPos == 2
Positions == 0 .. MaxPos
ScreenGeometry == Geometry("screen", 0, 0)

\* self.attributes('-fullscreen', on), the except branch when it raises
attributes_fullscreen(w, on) ==
    IF w.supported
    THEN [w EXCEPT !.fullscreen = on,
                   !.geometry = IF on THEN ScreenGeometry ELSE @]
    ELSE w

\* exit_fullscreen run on the window w
exit_fullscreen_on(w) ==
    LET cleared == IF w.is_fullscreen THEN attributes_fullscreen(w, FALSE) ELSE w
        restored == IF w.is_fullscreen /\ w.prev_geometry # NoGeometry
                    THEN [cleared EXCEPT !.geometry = w.prev_geometry]
                    ELSE cleared
    IN  [restored EXCEPT !.is_fullscreen = FALSE]

\* <Escape>
exit_fullscreen ==
    /\ win' = exit_fullscreen_on(win)
    /\ UNCHANGED <<variant, exported, now, TIMER_RUNNING, START_TIME, logs, nextId,
                   shown, toggles, appended, conc, stats, obs>>

\* <F11>
toggle_fullscreen ==
    /\ LET flipped == [win EXCEPT !.is_fullscreen = ~win.is_fullscreen]
       IN  IF flipped.is_fullscreen
           THEN LET saved == [flipped EXCEPT !.prev_geometry = win.geometry]
                IN  win' = IF saved.supported
                           THEN attributes_fullscreen(saved, TRUE)
                           ELSE [saved EXCEPT !.geometry = ScreenGeometry]
           ELSE win' = exit_fullscreen_on(flipped)
    /\ UNCHANGED <<variant, exported, now, TIMER_RUNNING, START_TIME, logs, nextId,
                   shown, toggles, appended, conc, stats, obs>>

\* <B1-Motion> on the title bar: only the position is set.
drag_window ==
    /\ ~win.is_fullscreen
    /\ \E x \in Positions, y \in Positions :
          win' = [win EXCEPT !.geometry = Geometry(win.geometry.size, x, y)]
    /\ UNCHANGED <<variant, exported, now, TIMER_RUNNING, START_TIME, logs, nextId,
                   shown, toggles, appended, conc, stats, obs>>

InitWindow ==
    /\ variant = "tracker"
    /\ now = StartNow
    /\ TIMER_RUNNING = FALSE
    /\ START_TIME = None
    /\ logs = {}
    /\ nextId = 1
    /\ shown = Quiet
    /\ toggles = 0
    /\ appended = 0
    /\ pc = [t \in Callers |-> "idle"]
    /\ t_end = [t \in Callers |-> None]
    /\ ui = UiIdle
    /\ observed = [whole |-> TRUE, mid |-> FALSE]
    /\ quit = NoQuit
    /\ exported = NoFile
    /\ stats = NoStats
    /\ obs = ObsIdle
    /\ \E s \in BOOLEAN : win = [WinInit EXCEPT !.supported = s]

NextWindow ==
    \/ toggle_fullscreen
    \/ exit_fullscreen
    \/ drag_window

SpecWindow == InitWindow /\ [][NextWindow]_vars

-----------------------------------------------------------------------------
\* Deducting from stores of well-formed records: sessions of the timer, manual
\* entries, and imported records with the three keys, parseable timestamps
\* and a duration >= 0.  datetime.fromisoformat() accepts any separator
\* between date and time, so an imported timestamp may be written
\* "YYYY-MM-DD HH:MM:SS"; the program's own isoformat() writes a "T".
DeductBatches ==
    LET elems == { Elem(ImportKeys, isoformat(ImportStart),
                        isoformat(ImportStart + Seconds(60)), "int", 60),
                   Elem(ImportKeys, isoformat_space(ImportStart + Seconds(60)),
                        isoformat_space(ImportStart + Seconds(120)), "int", 60) }
    IN  UNION {[1 .. n -> elems] : n \in 0 .. MaxBatch}

NextDeduct ==
    \/ Tick
    \/ toggle_timer
    \/ \E mode \in {"add", "deduct"}, d \in Days, input \in SpinInputs :
          manual_op(mode, d, input)
    \/ \E recs \in DeductBatches : import_json(recs)

SpecDeduct == Init /\ [][NextDeduct]_vars

-----------------------------------------------------------------------------
\* The Stats page over the stores the dashboard builds: manual entries on any
\* date of the calendar, imports of any JSON array, and the refresh of the
\* page while the clock runs.
NextStatsPage ==
    \/ Tick
    \/ \E mode \in {"add", "deduct"}, d \in Days, input \in SpinInputs :
          manual_op(mode, d, input)
    \/ \E recs \in Batches : import_json(recs)
    \/ update_stats_page

SpecStatsPage == Init /\ [][NextStatsPage]_vars

-----------------------------------------------------------------------------
(* Export and import of the store as a JSON file *)

\* dict(r) of a row as json.dump() writes it and json.load() reads it back: an
\* object keyed by the four columns, the TEXT columns as JSON strings and the
\* INTEGER columns as JSON numbers.
json_object(r) ==
    [keys |-> {"id", "start_time", "end_time", "duration_seconds"},
     id |-> [k |-> "int", v |-> r.id],
     start_time |-> r.start_time,
     end_time |-> r.end_time,
     duration_seconds |-> [k |-> "int", v |-> r.duration_seconds]]

\* SettingsWindow.export_json() with a file name chosen: the rows in the
\* order get_all_logs() returns them.
export_json ==
    /\ IF get_all_logs = {}
         THEN /\ shown' = Show("No data to export.", 0)
              /\ UNCHANGED exported
         ELSE /\ \E data \in read_orders(get_all_logs) :
                   exported' = [written |-> TRUE,
                                file |-> [i \in 1 .. Len(data) |-> json_object(data[i])],
                                rows |-> get_all_logs]
              /\ shown' = Show("Export Successful", 0)
    /\ UNCHANGED <<view, variant, now, TIMER_RUNNING, START_TIME, logs, nextId,
                   toggles, appended, conc>>

\* The program starts where no study_logs.db exists: init_db() creates the
\* empty table logs, whose AUTOINCREMENT ids start at 1.
init_db ==
    /\ ~TIMER_RUNNING
    /\ logs' = {}
    /\ nextId' = 1
    /\ shown' = Quiet
    /\ UNCHANGED <<view, variant, exported, now, TIMER_RUNNING, START_TIME,
                   toggles, appended, conc>>

\* The dashboard fills a store by manual entries and imports, exports it, and
\* the exported file is imported into the store of a new installation.
NextRoundTrip ==
    \/ \E d \in Days, input \in SpinInputs : manual_op("add", d, input)
    \/ \E recs \in Batches : import_json(recs)
    \/ export_json
    \/ init_db
    \/ exported.written /\ import_json(exported.file)

SpecRoundTrip == Init /\ [][NextRoundTrip]_vars

-----------------------------------------------------------------------------
\* The heatmap of the Stats page, drawn by the refresh of the page and by the
\* two year buttons, over stores with at most one row on each of the days
\* FirstHeatDay .. MaxHeatDay (31 December 2024 and the days after it).  The
\* rows have the durations of HeatSeconds; a negative one is an imported row.

MaxHeatDay == 5
FirstHeatDay == MaxHeatDay - 2
HeatDays == FirstHeatDay .. MaxHeatDay

heat_rows(d, sec) ==
    {Row(d + 1, isoformat(Midnight(d) + Seconds(60)),
         isoformat(Midnight(d) + Seconds(60 + sec)), sec)}

HeatStores ==
    {UNION {IF d \in DOMAIN f THEN heat_rows(d, f[d]) ELSE {} : d \in HeatDays} :
        f \in UNION {[D -> {-30, 0, 10, 15, 30, 45, 60}] : D \in SUBSET HeatDays}}

InitHeatmap ==
    /\ variant \in {"tracker", "copy"}
    /\ now = Midnight(MaxHeatDay) + Seconds(1)
    /\ TIMER_RUNNING = FALSE
    /\ START_TIME = None
    /\ logs \in HeatStores
    /\ nextId = MaxHeatDay + 2
    /\ shown = Quiet
    /\ toggles = 0
    /\ appended = 0
    /\ pc = [t \in Callers |-> "idle"]
    /\ t_end = [t \in Callers |-> None]
    /\ ui = UiIdle
    /\ observed = [whole |-> TRUE, mid |-> FALSE]
    /\ quit = NoQuit
    /\ exported = NoFile
    /\ stats = NoStats
    /\ obs = ObsIdle
    /\ win = [WinInit EXCEPT !.heatmap_year = year_of(DateOf(now))]

\* _navigate_heatmap(direction), from the buttons of the heatmap
navigate_heatmap(direction) ==
    /\ win.heatmap_year + direction \in
            {year_of(FirstHeatDay), year_of(FirstHeatDay) + 1}
    /\ win' = [win EXCEPT !.heatmap_year = @ + direction,
                          !.canvas = update_heatmap(variant, logs, win.heatmap_year + direction)]
    /\ UNCHANGED <<variant, exported, now, TIMER_RUNNING, START_TIME, logs, nextId,
                   shown, toggles, appended, conc, stats, obs>>

NextHeatmap ==
    \/ update_stats_page
    \/ \E direction \in {-1, 1} : navigate_heatmap(direction)

SpecHeatmap == InitHeatmap /\ [][NextHeatmap]_vars

-----------------------------------------------------------------------------
(* Properties *)

RECURSIVE SumDur(_)
SumDur(S) ==
    IF S = {} THEN 0
    ELSE LET r == CHOOSE x \in S : TRUE
         IN  r.duration_seconds + SumDur(S \ {r})

StartsOn(r, d) ==
    ParseOK(r.start_time) /\ DateOf(fromisoformat(r.start_time)) = d

RowsOn(store, d) == {r \in store : StartsOn(r, d)}

\* C1: every toggle in Idle starts a session (Running, start_time = now, no
\* row written); every toggle in Running stops it (Idle, start_time cleared,
\* exactly one row appended, whose duration is end - start truncated to whole
\* seconds); so after n toggles exactly n div 2 rows were appended.
C1_ToggleContract ==
    /\ [][toggles' = toggles + 1 =>
            IF ~TIMER_RUNNING
              THEN /\ TIMER_RUNNING'
                   /\ START_TIME' = now
                   /\ logs' = logs
              ELSE /\ ~TIMER_RUNNING'
                   /\ START_TIME' = None
                   /\ \E r \in logs' \ logs :
                        /\ logs' = logs \cup {r}
                        /\ r.start_time = isoformat(START_TIME)
                        /\ r.end_time = isoformat(now)
                        /\ r.duration_seconds * TicksPerSec <= now - START_TIME
                        /\ now - START_TIME < (r.duration_seconds + 1) * TicksPerSec
         ]_vars
    /\ [](appended = toggles \div 2)

\* A session of less than a second was logged with duration 0, and a second
\* session was started after it.
C1_Witness ==
    /\ toggles >= 3
    /\ \E r \in logs : r.duration_seconds = 0 /\ r.end_time # r.start_time

\* C2: the hot-key thread changes neither the timer state nor the store (it
\* hands the toggle to the Tk event loop), so it is never inside
\* toggle_timer() while the Tk event loop is inside a handler.
C2_HotkeyHandsOff ==
    /\ [][pc'["hk"] # pc["hk"] =>
            /\ TIMER_RUNNING' = TIMER_RUNNING
            /\ START_TIME' = START_TIME
            /\ logs' = logs
         ]_vars
    /\ [](~(pc["hk"] # "idle" /\ ui.pc # "idle"))

\* C3: a direct edit by d minutes deletes the row when duration + 60 d <= 0
\* and otherwise stores duration + 60 d with end_time = start_time + the new
\* duration.
C3_EditContract ==
    [][\A id \in 1 .. MaxId, input \in EditInputs :
          (input.k = "int" /\ apply_change(id, input)) =>
             LET log == CHOOSE r \in logs : r.id = id
                 new_duration == log.duration_seconds + 60 * input.v
             IN  IF new_duration <= 0
                   THEN ~ \E r \in logs' : r.id = id
                   ELSE \E r \in logs' :
                          /\ r.id = id
                          /\ r.duration_seconds = new_duration
                          /\ ParseOK(r.start_time) /\ ParseOK(r.end_time)
                          /\ fromisoformat(r.end_time) - fromisoformat(r.start_time)
                               = Seconds(new_duration)
      ]_vars

\* C4: a deduct of more seconds than the target date holds deletes every row
\* of that date; after a deduct no row of the date has a negative duration;
\* the rows of other dates are untouched.
C4_DeductContract ==
    [][\A d \in Days, input \in SpinInputs :
          (~spin_rejected(input) /\ manual_op("deduct", d, input)) =>
             /\ input.v * 60 > SumDur(RowsOn(logs, d)) => RowsOn(logs', d) = {}
             /\ \A r \in RowsOn(logs', d) : r.duration_seconds >= 0
             /\ logs' \ RowsOn(logs', d) = logs \ RowsOn(logs, d)
      ]_vars

\* An element that can be inserted on its own.
C5_Importable(r) ==
    /\ ImportKeys \subseteq r.keys
    /\ r.duration_seconds.k = "int"
    /\ r.start_time.k # "null" /\ r.end_time.k # "null"

\* C5: an import adds one row for every element that has the three keys and
\* can be inserted, whatever the other elements are, and reports the number
\* of rows it added.
C5_ImportContract ==
    [][\A recs \in Batches :
          import_json(recs) =>
             LET ok == {i \in 1 .. Len(recs) : C5_Importable(recs[i])} IN
             /\ logs \subseteq logs'
             /\ Cardinality(logs' \ logs) = Cardinality(ok)
             /\ \A r \in logs' \ logs : \E i \in ok :
                   /\ r.start_time = recs[i].start_time
                   /\ r.end_time = recs[i].end_time
                   /\ r.duration_seconds = recs[i].duration_seconds.v
             /\ shown' = ImportDone(Cardinality(logs' \ logs))
      ]_vars

\* C6: every stored row has duration_seconds >= 0.
C6_DurationNonNegative == \A r \in logs : r.duration_seconds >= 0

\* C7: every stored row has a parseable start_time and end_time, so
\* calc_stats() cannot fail on the store.
C7_TimestampsParse ==
    /\ \A r \in logs : ParseOK(r.start_time) /\ ParseOK(r.end_time)
    /\ ~calc_stats_raises(logs)

C9_InvalidMinutesRejected ==
    [][\A mode \in {"add", "deduct"}, d \in Days, input \in SpinInputs :
          (manual_op(mode, d, input) /\ (input.k # "int" \/ input.v <= 0)) =>
             /\ logs' = logs
             /\ nextId' = nextId
             /\ shown' = WarnPositive
      ]_vars

\* The warning is up over a store that holds rows.
C9_Witness == shown = WarnPositive /\ logs # {}

\* C10: a deduct for a date on which no row starts shows the information
\* dialog, changes no row and raises nothing.
C10_DeductNothing ==
    [][\A d \in Days, input \in SpinInputs :
          (~spin_rejected(input) /\ manual_op("deduct", d, input)
             /\ RowsOn(logs, d) = {}) =>
             logs' = logs /\ shown' = InfoNone
      ]_vars

\* calc_stats() has returned a dict.
Computed == stats.keys # {}

\* The distinct start dates of the stored rows.
StudiedDates == {DateOf(fromisoformat(r.start_time)) : r \in logs}

Today == DateOf(now)

HmsKeys == {"total_hours", "today_hours", "weekly_hours", "monthly_hours",
            "daily_avg", "weekly_avg", "monthly_avg", "avg_session_duration"}

NumKeys == {"total_sec", "today_sec", "week_sec", "month_sec",
            "current_streak", "longest_streak"}

\* The values the dict of an empty store holds for the keys it has.
EmptyValues ==
    /\ ~stats.raised
    /\ stats.total_hours = <<0, 0, 0>> /\ stats.today_hours = <<0, 0, 0>>
    /\ stats.weekly_hours = <<0, 0, 0>> /\ stats.monthly_hours = <<0, 0, 0>>
    /\ stats.daily_avg = <<0, 0, 0>> /\ stats.weekly_avg = <<0, 0, 0>>
    /\ stats.monthly_avg = <<0, 0, 0>>
    /\ stats.total_sec = 0 /\ stats.today_sec = 0
    /\ stats.week_sec = 0 /\ stats.month_sec = 0
    /\ stats.current_streak = 0 /\ stats.longest_streak = 0

C12_TotalIsSum ==
    (Computed /\ logs # {}) => (~stats.raised /\ stats.total_sec = SumDur(logs))

\* A total was computed over rows that can be read in more than one order,
\* one of which has an end_time that disagrees with its duration.
C12_Witness ==
    /\ Computed /\ Cardinality(logs) >= 3 /\ stats.total_sec = SumDur(logs)
    /\ \E r \in logs : row_seconds_elapsed(r) # r.duration_seconds
    /\ \E r, q \in logs : r # q /\ r.start_time = q.start_time

\* The longest run of consecutive days in the set S of days.
MaxRun(S) ==
    IF S = {} THEN 0
    ELSE CHOOSE n \in 1 .. Cardinality(S) :
           /\ \E d \in S : \A k \in 0 .. n - 1 : d + k \in S
           /\ \A m \in n + 1 .. Cardinality(S) :
                 ~ \E d \in S : \A k \in 0 .. m - 1 : d + k \in S

\* C17: for a non-empty store longest_streak is the length of the longest run
\* of consecutive calendar dates among the distinct start dates; it is 1 when
\* no two studied dates are adjacent, and 3 for the dates D, D+1, D+2, D+4.
C17_LongestStreak ==
    (Computed /\ logs # {}) =>
        /\ stats.longest_streak = MaxRun(StudiedDates)
        /\ (\A d \in StudiedDates : d + 1 \notin StudiedDates) => stats.longest_streak = 1
        /\ (\E d \in StudiedDates : StudiedDates = {d, d + 1, d + 2, d + 4})
              => stats.longest_streak = 3

\* The streak of the dates D, D+1, D+2, D+4 was computed.
C17_Witness ==
    /\ Computed /\ stats.longest_streak = 3
    /\ \E d \in StudiedDates : StudiedDates = {d, d + 1, d + 2, d + 4}

\* The length of the run of consecutive days of S that ends at day d.
RunEndingAt(S, d) ==
    CHOOSE n \in 1 .. Cardinality(S) :
        /\ \A k \in 0 .. n - 1 : d - k \in S
        /\ d - n \notin S

LastStudied == CHOOSE d \in StudiedDates : \A e \in StudiedDates : e <= d

\* C18: current_streak is 0 unless the most recent studied date is today or
\* yesterday; when it is, current_streak is the length of the run of
\* consecutive dates that ends at the most recent studied date.
C18_CurrentStreak ==
    (Computed /\ logs # {}) =>
        stats.current_streak =
            IF LastStudied \in {Today, Today - 1}
              THEN RunEndingAt(StudiedDates, LastStudied) ELSE 0

\* A streak of several days that ended yesterday, after an earlier gap.
C18_Witness ==
    /\ Computed /\ logs # {} /\ LastStudied = Today - 1
    /\ stats.current_streak >= 2
    /\ Cardinality(StudiedDates) > stats.current_streak

\* The Monday of the week day d lies in.
MondayOf(d) == d - weekday(d)

\* C19: weekly_avg is total_sec divided by the number of distinct
\* Monday-to-Sunday weeks (ISO year and ISO week) the studied dates lie in,
\* also for a week that straddles a calendar-year boundary.
C19_WeeklyAvgIsoWeeks ==
    (Computed /\ logs # {}) =>
        stats.weekly_avg =
            hms(Ratio(SumDur(logs), Cardinality({MondayOf(d) : d \in StudiedDates})))

\* The days from the first studied date to today, inclusive.
Span == Today - (CHOOSE d \in StudiedDates : \A e \in StudiedDates : d <= e) + 1

\* C20 as claimed: consistency_percent is exactly 100 x distinct studied
\* dates / days from the first studied date to today inclusive, and 0 with no
\* rows or a span that is not positive (the value is kept in hundredths).
C20_ConsistencyExact ==
    (Computed /\ "consistency_percent" \in stats.keys) =>
        IF logs = {} \/ Span <= 0
          THEN stats.consistency_percent = 0
          ELSE stats.consistency_percent * Span = 100 * 100 * Cardinality(StudiedDates)

\* C20 amended: in src/tracker.py consistency_percent is 100 x distinct
\* studied dates / days from the first studied date to today inclusive,
\* rounded to two decimals (a tie to the even hundredth), and 0 with no rows
\* or a span that is not positive.
C20_ConsistencyRounded ==
    (Computed /\ variant = "tracker") =>
        /\ "consistency_percent" \in stats.keys
        /\ IF logs = {} \/ Span <= 0
             THEN stats.consistency_percent = 0
             ELSE LET exact == 100 * 100 * Cardinality(StudiedDates)
                      diff  == stats.consistency_percent * Span - exact
                  IN  /\ 2 * diff <= Span /\ -2 * diff <= Span
                      /\ (2 * diff = Span \/ -2 * diff = Span)
                            => stats.consistency_percent % 2 = 0

\* Two studied dates in a span of three days: 66.67 percent.
C20_Witness ==
    /\ Computed /\ variant = "tracker" /\ logs # {}
    /\ Cardinality(StudiedDates) = 2 /\ Span = 3
    /\ stats.consistency_percent = 6667

\* C13: the payload an overlay tick builds has a running indicator equal to
\* the timer's running state; session_elapsed 0 when the timer is Idle and
\* now - start_time when it is Running; today_total = today_sec of the tick's
\* statistics snapshot + session_elapsed; and the snapshot's current_streak.
C13_OverlayPayload ==
    [][(obs.pc = "write" /\ obs'.pc = "idle") =>
          LET p == obs'.payload
              since == Ratio(obs.at - START_TIME, TicksPerSec)
          IN  /\ p.running = TIMER_RUNNING
              /\ p.streak = obs.stats.current_streak
              /\ ~TIMER_RUNNING =>
                    /\ p.session = <<0, 0, 0>>
                    /\ p.today = hms(Ratio(obs.stats.today_sec, 1))
              /\ (TIMER_RUNNING /\ START_TIME # None /\ START_TIME <= obs.at) =>
                    /\ p.session = hms(since)
                    /\ p.today = hms(Ratio(obs.stats.today_sec * TicksPerSec + since.num,
                                           TicksPerSec))
      ]_vars

\* C14: every overlay tick that ends, whether or not its output was
\* delivered, has scheduled the next tick.
C14_TickReschedules ==
    [][(obs' # obs /\ obs'.pc = "idle") => obs'.scheduled]_vars

\* C15: F11 toggles fullscreen and Esc exits it: after every press the
\* is_fullscreen flag tells whether the window is shown fullscreen (the
\* '-fullscreen' attribute, or the screen-sized geometry where the attribute is
\* not supported), and a press that takes the flag from set to clear clears
\* the attribute and puts back the geometry saved on entry.
ShownFullscreen(w) ==
    \/ w.fullscreen
    \/ ~w.supported /\ w.geometry.size = "screen"

C15_FullscreenToggle ==
    [][ /\ win'.is_fullscreen = ShownFullscreen(win')
        /\ (win.is_fullscreen /\ ~win'.is_fullscreen) =>
              /\ ~win'.fullscreen
              /\ win'.geometry = win.prev_geometry
      ]_vars

\* C16: a deduct of S seconds on a date takes that date's rows newest start
\* first, deleting a row while its duration fits in what remains and
\* shrinking the first row that does not fit (end_time = start_time + new
\* duration), where it stops.  So at most one row is shrunk; whenever a row
\* was deleted or shrunk, every row of the date that starts later was
\* deleted; and the date's total drops by min(S, previous total).
Min(a, b) == IF a <= b THEN a ELSE b

C16_DeductOrder ==
    [][\A d \in Days, input \in SpinInputs :
          (~spin_rejected(input) /\ manual_op("deduct", d, input)
             /\ ~calc_stats_raises(logs)) =>
             LET before == RowsOn(logs, d)
                 Deleted(r) == \A q \in logs' : q.id # r.id
                 Shrunk(r) == \E q \in logs' : q.id = r.id /\ q # r
             IN  /\ Cardinality({r \in before : Shrunk(r)}) <= 1
                 /\ \A r \in before : \A q \in logs' :
                       (q.id = r.id /\ q # r) =>
                          /\ q.start_time = r.start_time
                          /\ q.duration_seconds < r.duration_seconds
                          /\ ParseOK(q.end_time)
                          /\ fromisoformat(q.end_time)
                               = fromisoformat(q.start_time) + Seconds(q.duration_seconds)
                 /\ \A r, q \in before :
                       ( /\ Deleted(r) \/ Shrunk(r)
                         /\ fromisoformat(q.start_time) > fromisoformat(r.start_time) )
                       => Deleted(q)
                 /\ SumDur(before) - SumDur(RowsOn(logs', d))
                      = Min(input.v * 60, SumDur(before))
      ]_vars

\* The summed duration_seconds of the rows of a store that start on the
\* weekday named n.
WeekdayTotal(store, n) ==
    SumDur({r \in store : ParseOK(r.start_time)
                          /\ day_name(DateOf(fromisoformat(r.start_time))) = n})

WeekdayNames == {DayNames[i] : i \in 1 .. 7}

\* C21: for a store with rows, busiest_day names a weekday whose summed
\* duration_seconds is the largest of the seven weekdays' sums; it is "N/A"
\* only when the store has no row.
C21_BusiestDay ==
    [][(update_stats_page /\ ~stats'.raised /\ "busiest_day" \in stats'.keys) =>
          /\ logs # {} =>
                /\ stats'.busiest_day \in WeekdayNames
                /\ \A n \in WeekdayNames :
                      WeekdayTotal(logs, n) <= WeekdayTotal(logs, stats'.busiest_day)
          /\ stats'.busiest_day = "N/A" => logs = {}
      ]_vars

\* The seconds stored for the calendar day d, and the largest such total of
\* the displayed year (1 when no row starts in that year).
DayTotal(d) == SumDur(RowsOn(logs, d))

YearDates(year) ==
    {DateOf(fromisoformat(r.start_time)) :
        r \in {x \in logs : ParseOK(x.start_time)
                            /\ year_of(DateOf(fromisoformat(x.start_time))) = year}}

YearMax(year) ==
    IF YearDates(year) = {} THEN 1
    ELSE CHOOSE m \in {DayTotal(d) : d \in YearDates(year)} :
            \A d \in YearDates(year) : DayTotal(d) <= m

\* C22: the heatmap is coloured without an error; a day with 0 seconds is in
\* tier 0; a day with v > 0 seconds is in tier 1, 2, 3 or 4 as v / max is below
\* 25%, below 50%, below 75% or at least 75% of the year's largest daily
\* total, so the day that holds a maximum above 0 is in tier 4; in a year
\* without rows max is 1 and every day is in tier 0.
C22_HeatmapTiers ==
    LET year  == win.heatmap_year
        cells == win.canvas.cells
        mx    == YearMax(year)
    IN  /\ ~win.canvas.raised
        /\ \A i \in DOMAIN cells :
              LET v == DayTotal(date_of_year(year, cells[i].day))
                  t == cells[i].tier
              IN  /\ v = 0 => t = 0
                  /\ v > 0 =>
                        /\ t \in 1 .. 4
                        /\ t = 1 <=> 4 * v < mx
                        /\ t = 2 <=> (mx <= 4 * v /\ 4 * v < 2 * mx)
                        /\ t = 3 <=> (2 * mx <= 4 * v /\ 4 * v < 3 * mx)
                        /\ t = 4 <=> 3 * mx <= 4 * v
                  /\ (v > 0 /\ v = mx) => t = 4
                  /\ YearDates(year) = {} => (mx = 1 /\ t = 0)

\* The number of days of a calendar year.
DaysInYear(year) == ymd2ord(year + 1, 1, 1) - ymd2ord(year, 1, 1)

\* C23: once the heatmap of a year is drawn to its end, each of the year's 365 or 366
\* days, 31 December included, has exactly one rectangle, at row
\* (first_weekday_of_year + day_of_year - 1) mod 7 and at that expression
\* div 7 as column; two days never share a cell, and the row is the day's
\* weekday counted from Monday.
C23_HeatmapLayout ==
    LET year  == win.heatmap_year
        cells == win.canvas.cells
        first == weekday(ymd2ord(year, 1, 1) - EpochOrdinal)
    IN  (win.canvas # NoCanvas /\ ~win.canvas.raised) =>
          /\ Len(cells) = DaysInYear(year)
          /\ {cells[i].day : i \in DOMAIN cells} = 1 .. DaysInYear(year)
          /\ \A i \in DOMAIN cells :
                /\ cells[i].row = (first + cells[i].day - 1) % 7
                /\ cells[i].col = (first + cells[i].day - 1) \div 7
                /\ cells[i].row
                     = (ymd2ord(year, 1, 1) + cells[i].day - 1 + 6) % 7
          /\ \A i, j \in DOMAIN cells :
                (cells[i].row = cells[j].row /\ cells[i].col = cells[j].col) => i = j

\* No thread is inside toggle_timer().
OutsideToggle == \A t \in Callers : pc[t] \in {"idle", "quit", "exited"}

\* C24: however the toggle_timer() calls of the keyboard listener and of the
\* tray's Quit handler interleave, no running session is lost: a recorded
\* start_time is replaced or cleared only once a row with that start_time is
\* in the store, and whenever no thread is inside toggle_timer() the running
\* flag is set exactly when start_time is.
C24_NoSessionLost ==
    /\ [][(START_TIME # None /\ START_TIME' # START_TIME) =>
             \E r \in logs' : r.start_time = isoformat(START_TIME)
         ]_vars
    /\ [](OutsideToggle => (TIMER_RUNNING <=> START_TIME # None))

\* C25: when the append fails while the timer is stopped, the timer state
\* stays consistent: the running flag is set exactly when start_time is, and
\* the start_time of the session that was not logged is neither cleared nor
\* replaced by the next toggle before a row with it is stored.
C25_WriteErrorKeepsSession ==
    /\ [](TIMER_RUNNING <=> START_TIME # None)
    /\ [][(START_TIME # None /\ START_TIME' # START_TIME) =>
             \E r \in logs' : r.start_time = isoformat(START_TIME)
         ]_vars

\* C26: when Quit was chosen while the timer was Running, the application
\* exits with the timer stopped and with exactly one row appended for the
\* session that was running; Quit chosen while the timer is not running calls
\* no toggle and appends nothing.
C26_QuitStopsTimer ==
    [][ /\ (on_quit_test /\ ~TIMER_RUNNING) =>
              (pc'[TrayThread] = "quit" /\ logs' = logs)
        /\ (on_quit_stop /\ quit.running /\ quit.start # None) =>
              /\ ~TIMER_RUNNING
              /\ Cardinality({r \in logs \ quit.store :
                                r.start_time = isoformat(quit.start)}) = 1
      ]_vars

\* C27: for every store and every today, the dict calc_stats() returns has
\* current_streak <= longest_streak <= the number of distinct studied dates,
\* which is total_study_days where the dict has that key.
C27_StreakOrder ==
    Computed =>
      /\ stats.current_streak <= stats.longest_streak
      /\ stats.longest_streak <= Cardinality(StudiedDates)
      /\ "total_study_days" \in stats.keys =>
            stats.total_study_days = Cardinality(StudiedDates)

\* A store with a gap: the run that ends today is shorter than the longest
\* run, which is shorter than the number of studied dates.
C27_Witness ==
    /\ Computed
    /\ 0 < stats.current_streak
    /\ stats.current_streak < stats.longest_streak
    /\ stats.longest_streak < Cardinality(StudiedDates)



\* C28: consistency_percent (kept in hundredths of a percent) is between 0
\* and 100 inclusive for every store the program's operations build, manual
\* entries on any date of the calendar included, and every value of today.
C28_ConsistencyRange ==
    (Computed /\ "consistency_percent" \in stats.keys) =>
        /\ 0 <= stats.consistency_percent
        /\ stats.consistency_percent <= 100 * 100

\* C29: an import only appends.  Every row of the store before the import is
\* in the store after it with the same id, start_time, end_time and
\* duration_seconds, whether the import adds rows, skips elements or fails,
\* and the rows it adds have ids no earlier row has.
C29_ImportAppends ==
    [][\A recs \in Batches :
          import_json(recs) =>
             /\ logs \subseteq logs'
             /\ \A r \in logs' \ logs : \A q \in logs : q.id # r.id
      ]_vars

\* An import added one row with the contents of a row the store already had,
\* and both rows are stored.
C29_Witness ==
    /\ shown = ImportDone(1)
    /\ \E r \in logs, q \in logs :
          /\ r.id # q.id
          /\ r.start_time = q.start_time
          /\ r.end_time = q.end_time
          /\ r.duration_seconds = q.duration_seconds

\* The rows of a store with a given (start_time, end_time, duration_seconds).
Copies(store, r) ==
    Cardinality({q \in store : /\ q.start_time = r.start_time
                               /\ q.end_time = r.end_time
                               /\ q.duration_seconds = r.duration_seconds})

\* C30: importing the exported file into an empty store yields the exported
\* store's multiset of (start_time, end_time, duration_seconds) triples, and
\* the import reports the number of exported records.
C30_RoundTrip ==
    [][(exported.written /\ logs = {} /\ import_json(exported.file)) =>
          /\ \A r \in exported.rows \cup logs' :
                Copies(logs', r) = Copies(exported.rows, r)
          /\ shown' = ImportDone(Cardinality(exported.rows))
      ]_vars

=============================================================================
